---- MODULE Spec2Model ----
(***************************************************************************)
(* Model of datax/transform.py: FieldExtractor, XMLDocTransformer and the  *)
(* command line entry point main.                                          *)
(*                                                                         *)
(* Python strings are sequences of one-character strings, so that          *)
(* str.split(':'), str.startswith('.//') and the format mini-language are  *)
(* computed character by character.  A Python value that may be None is a  *)
(* record: NoneVal or Some(v).  A call that may raise returns Ok(v) or     *)
(* Raise(e).                                                               *)
(***************************************************************************)
EXTENDS Integers, Sequences, FiniteSets, TLC

\* ------------------------------------------------------------------ bounds
MaxChildren == 3
MaxSpecs == 2

\* ------------------------------------------------------- optional / result
NoneVal == [isNone |-> TRUE]
Some(v) == [isNone |-> FALSE, val |-> v]

Ok(v) == [ok |-> TRUE, val |-> v]
Raise(e) == [ok |-> FALSE, err |-> e]

\* Exceptions: the Python class, what raised it, and the argument it carries.
ValueError_InvalidSource(src) == [type |-> "ValueError", what |-> "Invalid value source", arg |-> src]
IndexError_Pop == [type |-> "IndexError", what |-> "pop from empty list", arg |-> <<>>]
KeyError(name) == [type |-> "KeyError", what |-> "field", arg |-> name]
TypeError_Format == [type |-> "TypeError", what |-> "unsupported format string passed to NoneType.__format__", arg |-> <<>>]
ValueError_Format(fmt) == [type |-> "ValueError", what |-> "Invalid format specifier", arg |-> fmt]
TypeError_NotIterable == [type |-> "TypeError", what |-> "'NoneType' object is not iterable", arg |-> <<>>]
FileNotFoundError == [type |-> "FileNotFoundError", what |-> "open", arg |-> <<>>]
UnboundLocalError == [type |-> "UnboundLocalError", what |-> "value", arg |-> <<>>]
ParseError == [type |-> "ParseError", what |-> "ET.parse", arg |-> <<>>]

\* ----------------------------------------------------------------- strings
s_attrib == <<"a", "t", "t", "r", "i", "b">>
s_text == <<"t", "e", "x", "t">>
s_bogus == <<"b", "o", "g", "u", "s">>
s_None == <<"N", "o", "n", "e">>
s_ID == <<"I", "D">>
s_a == <<"a">>
s_b == <<"b">>
s_v == <<"v">>
s_w == <<"w">>
s_doc == <<"d", "o", "c">>
s_item == <<"i", "t", "e", "m">>
s_items == <<"i", "t", "e", "m", "s">>
s_other == <<"o", "t", "h", "e", "r">>
s_nope == <<"n", "o", "p", "e">>
s_anydepth == <<".", "/", "/">>
s_10 == <<"1", "0">>
s_20 == <<"2", "0">>
s_7 == <<"7">>
f_trunc1 == <<".", "1", "s">>
f_right3 == <<">", "3">>
f_center4 == <<"^", "4">>
f_int == <<"d">>

\* a ':' b
Colon(a, b) == a \o <<":">> \o b

\* str.startswith
StartsWith(s, prefix) ==
    /\ Len(s) >= Len(prefix)
    /\ SubSeq(s, 1, Len(prefix)) = prefix

\* str.split(sep) for a one-character separator
RECURSIVE Split(_, _)
Split(s, sep) ==
    IF \A i \in 1..Len(s) : s[i] # sep
    THEN <<s>>
    ELSE LET i == CHOOSE k \in 1..Len(s) : s[k] = sep /\ \A j \in 1..(k - 1) : s[j] # sep
         IN <<SubSeq(s, 1, i - 1)>> \o Split(SubSeq(s, i + 1, Len(s)), sep)

DigitChars == {"0", "1", "2", "3", "4", "5", "6", "7", "8", "9"}

DigitVal(c) ==
    CASE c = "0" -> 0 [] c = "1" -> 1 [] c = "2" -> 2 [] c = "3" -> 3 [] c = "4" -> 4
      [] c = "5" -> 5 [] c = "6" -> 6 [] c = "7" -> 7 [] c = "8" -> 8 [] c = "9" -> 9

DigitChar(d) ==
    CASE d = 0 -> "0" [] d = 1 -> "1" [] d = 2 -> "2" [] d = 3 -> "3" [] d = 4 -> "4"
      [] d = 5 -> "5" [] d = 6 -> "6" [] d = 7 -> "7" [] d = 8 -> "8" [] d = 9 -> "9"

\* length of the run of digits at the start of s
RECURSIVE DigitRun(_)
DigitRun(s) ==
    IF s # <<>> /\ Head(s) \in DigitChars THEN 1 + DigitRun(Tail(s)) ELSE 0

\* int() of a string of digits
RECURSIVE ParseInt(_)
ParseInt(s) ==
    IF s = <<>> THEN 0 ELSE 10 * ParseInt(SubSeq(s, 1, Len(s) - 1)) + DigitVal(s[Len(s)])

\* str() of a non-negative int
RECURSIVE IntToStr(_)
IntToStr(n) ==
    IF n < 10 THEN <<DigitChar(n)>> ELSE IntToStr(n \div 10) \o <<DigitChar(n % 10)>>

Spaces(n) == [i \in 1..n |-> " "]

Min(a, b) == IF a <= b THEN a ELSE b

\* '{:<fmt>}'.format(s) for a str s.  The format mini-language is covered for
\* [align][width][.precision][s] (no fill character, sign, zero flag or
\* grouping); any other directive is an invalid specifier for a str.
FormatStr(s, fmt) ==
    LET hasAlign == fmt # <<>> /\ Head(fmt) \in {"<", ">", "^"}
        align == IF hasAlign THEN Head(fmt) ELSE "<"
        r1 == IF hasAlign THEN Tail(fmt) ELSE fmt
        wn == DigitRun(r1)
        width == ParseInt(SubSeq(r1, 1, wn))
        r2 == SubSeq(r1, wn + 1, Len(r1))
        hasPrec == r2 # <<>> /\ Head(r2) = "."
        pn == IF hasPrec THEN DigitRun(Tail(r2)) ELSE 0
        prec == IF hasPrec THEN ParseInt(SubSeq(r2, 2, pn + 1)) ELSE Len(s)
        r3 == IF hasPrec THEN SubSeq(r2, pn + 2, Len(r2)) ELSE r2
        body == SubSeq(s, 1, Min(prec, Len(s)))
        pad == IF width > Len(body) THEN width - Len(body) ELSE 0
        left == CASE align = "<" -> 0 [] align = ">" -> pad [] align = "^" -> pad \div 2
    IN IF (hasPrec /\ pn = 0) \/ r3 \notin {<<>>, <<"s">>}
       THEN Raise(ValueError_Format(fmt))
       ELSE Ok(Spaces(left) \o body \o Spaces(pad - left))

\* '{:<fmt>}'.format(None): NoneType accepts only the empty format spec
FormatNone(fmt) ==
    IF fmt = <<>> THEN Ok(s_None) ELSE Raise(TypeError_Format)

\* str(value)
Str(value) == IF value.isNone THEN s_None ELSE value.val

\* ---------------------------------------------------------------- elements
\* xml.etree Element: tag, attributes, direct text (None when absent) and
\* children in document order.
Element(tag, attrib, text, children) ==
    [tag |-> tag, attrib |-> attrib, text |-> text, children |-> children]

NoAttrib == [k \in {} |-> <<>>]

\* Element.get(name)
ElementGet(element, name) ==
    IF name \in DOMAIN element.attrib THEN Some(element.attrib[name]) ELSE NoneVal

\* all descendants of an element in document order, the element excluded
RECURSIVE Descendants(_)
RECURSIVE DescendantsOf(_, _)
DescendantsOf(kids, i) ==
    IF i > Len(kids) THEN <<>>
    ELSE <<kids[i]>> \o Descendants(kids[i]) \o DescendantsOf(kids, i + 1)
Descendants(element) == DescendantsOf(element.children, 1)

\* Element.find(path) for the paths 'tag' (direct children) and './/tag'
\* (descendants at any depth): the first match in document order, or None.
ElementFind(element, path) ==
    LET anyDepth == StartsWith(path, s_anydepth)
        tag == IF anyDepth THEN SubSeq(path, 4, Len(path)) ELSE path
        pool == IF anyDepth THEN Descendants(element) ELSE element.children
        found == SelectSeq(pool, LAMBDA e : e.tag = tag)
    IN IF found = <<>> THEN NoneVal ELSE Some(found[1])

\* ----------------------------------------------------------- FieldExtractor
\* FieldExtractor(source, name, field_format): the formatter is str when
\* field_format is None and '{:<field_format>}'.format otherwise, so the
\* object is determined by the three arguments.
FieldExtractor(source, name, field_format) ==
    [source |-> source, name |-> name, field_format |-> field_format]

\* self._formatter(value)
Formatter(fx, value) ==
    IF fx.field_format.isNone
    THEN Ok(Str(value))
    ELSE IF value.isNone
         THEN FormatNone(fx.field_format.val)
         ELSE FormatStr(value.val, fx.field_format.val)

\* from_spec without the check of the value source
from_spec_unchecked(field_spec) ==
    LET field_spec_parts == Split(field_spec, ":")
    IN IF Len(field_spec_parts) < 2
       THEN Raise(IndexError_Pop)
       ELSE Ok(FieldExtractor(field_spec_parts[1], field_spec_parts[2],
                              IF Len(field_spec_parts) >= 3
                              THEN Some(field_spec_parts[3]) ELSE NoneVal))

\* FieldExtractor.from_spec(field_spec)
from_spec(field_spec) ==
    LET field_spec_parts == Split(field_spec, ":")
        value_source == field_spec_parts[1]
    IN IF Len(field_spec_parts) < 2
       THEN Raise(IndexError_Pop)
       ELSE LET field_name == field_spec_parts[2]
                field_format == IF Len(field_spec_parts) >= 3
                                THEN Some(field_spec_parts[3])
                                ELSE NoneVal
            IN IF value_source \notin {s_attrib, s_text}
               THEN Raise(ValueError_InvalidSource(value_source))
               ELSE Ok(FieldExtractor(value_source, field_name, field_format))

\* extract with element.attrib[name] in place of element.get(name)
extract_strict(fx, element) ==
    IF fx.source = s_attrib
    THEN IF fx.name \in DOMAIN element.attrib
         THEN Formatter(fx, Some(element.attrib[fx.name]))
         ELSE Raise(KeyError(fx.name))
    ELSE LET child == ElementFind(element, fx.name)
         IN IF ~child.isNone
            THEN Formatter(fx, child.val.text)
            ELSE Raise(KeyError(fx.name))

\* extract with the child searched at any depth: element.find('.//' + name)
extract_anydepth(fx, element) ==
    IF fx.source = s_attrib
    THEN Formatter(fx, ElementGet(element, fx.name))
    ELSE LET child == ElementFind(element,
                                  IF StartsWith(fx.name, s_anydepth) THEN fx.name
                                  ELSE s_anydepth \o fx.name)
         IN IF ~child.isNone
            THEN Formatter(fx, child.val.text)
            ELSE Raise(KeyError(fx.name))

\* FieldExtractor.extract(element)
extract(fx, element) ==
    IF fx.source = s_attrib
    THEN Formatter(fx, ElementGet(element, fx.name))
    ELSE IF fx.source = s_text
    THEN LET child == ElementFind(element, fx.name)
         IN IF ~child.isNone
            THEN Formatter(fx, child.val.text)
            ELSE Raise(KeyError(fx.name))
    ELSE Raise(UnboundLocalError)

\* -------------------------------------------------------- XMLDocTransformer
\* the list comprehension over field_specs: the first spec that fails raises
RECURSIVE BuildFields(_, _, _)
BuildFields(field_specs, i, acc) ==
    IF i > Len(field_specs) THEN Ok(acc)
    ELSE LET r == from_spec(field_specs[i])
         IN IF r.ok THEN BuildFields(field_specs, i + 1, Append(acc, r.val))
            ELSE Raise(r.err)

\* the normalisation without the startswith test
NormalizeRootPath_always(root_path) ==
    IF ~root_path.isNone /\ root_path.val # <<>>
    THEN Some(s_anydepth \o root_path.val)
    ELSE root_path

\* the root_path normalisation of XMLDocTransformer.__init__
NormalizeRootPath(root_path) ==
    IF ~root_path.isNone /\ root_path.val # <<>> /\ ~StartsWith(root_path.val, s_anydepth)
    THEN Some(s_anydepth \o root_path.val)
    ELSE root_path

\* XMLDocTransformer(index_field, field_specs, root_path)
XMLDocTransformer(index_field, field_specs, root_path) ==
    LET built == BuildFields(field_specs, 1, <<>>)
    IN IF ~built.ok THEN Raise(built.err)
       ELSE Ok([index_field |-> index_field,
                fields |-> built.val,
                root_path |-> NormalizeRootPath(root_path)])

\* field_names with the index field appended instead of prepended
field_names_indexlast(t) ==
    [i \in 1..Len(t.fields) |-> t.fields[i].name] \o <<t.index_field>>

\* XMLDocTransformer.field_names()
field_names(t) ==
    <<t.index_field>> \o [i \in 1..Len(t.fields) |-> t.fields[i].name]

\* values of a record (a Python dict): the int index or an extracted str
IntVal(i) == [kind |-> "int", v |-> <<>>, n |-> i]
StrVal(s) == [kind |-> "str", v |-> s, n |-> 0]

\* dict.update
DictUpdate(d, e) ==
    [k \in (DOMAIN d) \cup (DOMAIN e) |-> IF k \in DOMAIN e THEN e[k] ELSE d[k]]

EmptyDict == [k \in {} |-> StrVal(<<>>)]

\* the dict comprehension {field.name: field.extract(item) for field in fields}:
\* fields are extracted in order and the first failure raises; calls counts
\* the extract invocations made.
RECURSIVE ExtractFields(_, _, _, _)
ExtractFields(fields, item, j, acc) ==
    IF j > Len(fields) THEN [ok |-> TRUE, val |-> acc, calls |-> Len(fields)]
    ELSE LET r == extract(fields[j], item)
         IN IF r.ok
            THEN ExtractFields(fields, item, j + 1,
                               DictUpdate(acc, [k \in {fields[j].name} |-> StrVal(r.val)]))
            ELSE [ok |-> FALSE, err |-> r.err, calls |-> j]

\* the loop of transform with a failing child skipped instead of raising
RECURSIVE TransformItems_skip(_, _, _, _, _)
TransformItems_skip(t, kids, i, items, calls) ==
    IF i > Len(kids) THEN [ok |-> TRUE, val |-> items, calls |-> calls]
    ELSE LET item_dict == [k \in {t.index_field} |-> IntVal(i - 1)]
             r == ExtractFields(t.fields, kids[i], 1, EmptyDict)
         IN TransformItems_skip(t, kids, i + 1,
                                IF r.ok THEN Append(items, DictUpdate(item_dict, r.val))
                                ELSE items,
                                calls + r.calls)

\* the loop of transform over enumerate(root)
RECURSIVE TransformItems(_, _, _, _, _)
TransformItems(t, kids, i, items, calls) ==
    IF i > Len(kids) THEN [ok |-> TRUE, val |-> items, calls |-> calls]
    ELSE LET item_dict == [k \in {t.index_field} |-> IntVal(i - 1)]
             r == ExtractFields(t.fields, kids[i], 1, EmptyDict)
         IN IF r.ok
            THEN TransformItems(t, kids, i + 1,
                                Append(items, DictUpdate(item_dict, r.val)),
                                calls + r.calls)
            ELSE [ok |-> FALSE, err |-> r.err, calls |-> calls + r.calls]

\* the root transform iterates: getroot(), or its find(root_path)
ResolveRoot(t, xmldoc) ==
    IF ~t.root_path.isNone THEN ElementFind(xmldoc, t.root_path.val) ELSE Some(xmldoc)

\* transform with a root that was not found treated as one without children
transform_emptyroot(t, xmldoc) ==
    LET root == ResolveRoot(t, xmldoc)
    IN IF root.isNone
       THEN [ok |-> TRUE, val |-> <<>>, calls |-> 0]
       ELSE TransformItems(t, root.val.children, 1, <<>>, 0)

\* XMLDocTransformer.transform(xmldoc); xmldoc is given by its top-level element
transform(t, xmldoc) ==
    LET root == ResolveRoot(t, xmldoc)
    IN IF root.isNone
       THEN [ok |-> FALSE, err |-> TypeError_NotIterable, calls |-> 0]
       ELSE TransformItems(t, root.val.children, 1, <<>>, 0)

\* ---------------------------------------------------------------- csv output
\* str() of a record value, as csv.writer writes a cell
CellStr(value) == IF value.kind = "int" THEN IntToStr(value.n) ELSE value.v

\* csv.DictWriter._dict_to_list: the row's cells in the order of fieldnames
\* (the keys of a record are always among the field names)
DictToList(fieldnames, rowdict) ==
    [i \in 1..Len(fieldnames) |->
        IF fieldnames[i] \in DOMAIN rowdict THEN CellStr(rowdict[fieldnames[i]]) ELSE <<>>]

\* ------------------------------------------------------------------- inputs
SeqsUpTo(S, n) == UNION {[1..k -> S] : k \in 0..n}

Leaf(tag, text) == Element(tag, NoAttrib, text, <<>>)

\* <item a="1"><v>10</v></item>
item1 == Element(s_item, (s_a :> <<"1">>), NoneVal, <<Leaf(s_v, Some(s_10))>>)
\* <other><w><v>7</v></w></other>: no attribute, v only as a grandchild
item2 == Element(s_other, NoAttrib, NoneVal,
                 <<Element(s_w, NoAttrib, NoneVal, <<Leaf(s_v, Some(s_7))>>)>>)
\* <item a="2"><v/><v>20</v></item>: the first v has no text
item3 == Element(s_item, (s_a :> <<"2">>), NoneVal,
                 <<Leaf(s_v, NoneVal), Leaf(s_v, Some(s_20))>>)
\* <x><w><v>7</v></w><v>10</v></x>: a nested v precedes the direct child v
node4 == Element(<<"x">>, NoAttrib, NoneVal,
                 <<Element(s_w, NoAttrib, NoneVal, <<Leaf(s_v, Some(s_7))>>),
                   Leaf(s_v, Some(s_10))>>)
\* <v a="1">10</v>: the tag is the node's own, it has no descendants
node5 == Element(s_v, (s_a :> <<"1">>), Some(s_10), <<>>)
\* an element built with v.text = ''
node6 == Element(<<"x">>, NoAttrib, NoneVal, <<Leaf(s_v, Some(<<>>))>>)

ItemKinds == {item1, item2, item3}
UnitNodes == ItemKinds \cup {node4, node5, node6}

\* the documents: <items> with up to MaxChildren children, as the top-level
\* element or wrapped in <doc>
ItemsElements == {Element(s_items, NoAttrib, NoneVal, kids) : kids \in SeqsUpTo(ItemKinds, MaxChildren)}
Documents == ItemsElements \cup {Element(s_doc, NoAttrib, NoneVal, <<e>>) : e \in ItemsElements}

\* what the path infile holds: nothing, text that is not XML, or a document
NoRoot == Leaf(<<>>, NoneVal)
Files ==
    {[kind |-> "missing", root |-> NoRoot], [kind |-> "malformed", root |-> NoRoot]}
    \cup {[kind |-> "xml", root |-> d] : d \in Documents}

MainSpecs ==
    { Colon(s_attrib, s_a), Colon(s_text, s_v), Colon(Colon(s_text, s_v), f_trunc1),
      Colon(s_bogus, s_a), s_attrib }

UnitSpecs ==
    MainSpecs \cup
    { s_text, s_bogus,
      Colon(s_attrib, s_b), Colon(Colon(s_attrib, s_a), <<>>),
      Colon(Colon(s_attrib, s_a), f_trunc1), Colon(Colon(s_attrib, s_b), f_right3),
      Colon(Colon(s_attrib, s_a), f_center4),
      Colon(s_text, s_w), Colon(s_text, s_anydepth \o s_v),
      Colon(Colon(s_text, s_v), f_right3), Colon(Colon(s_text, s_v), f_int),
      Colon(Colon(s_text, s_v), <<>>),
      Colon(Colon(Colon(s_text, s_v), f_trunc1), <<"x">>),
      Colon(Colon(s_bogus, s_a), f_trunc1),
      Colon(Colon(Colon(s_bogus, s_a), f_trunc1), <<"x">>) }

IndexFields == {s_ID, s_a}
RootPaths == {NoneVal, Some(s_items), Some(s_anydepth \o s_items), Some(s_nope)}

\* -------------------------------------------------------------------- state
VARIABLES
    entry,           \* how the program was entered: "main" or "unit"
    pc,              \* the statement to run next
    infile,          \* main's argument infile: what the file holds
    data_fields,     \* main's argument data_fields
    index_field,     \* main's option --index-field
    root_path,       \* main's option --root-path
    input_document,  \* main's local input_document
    transformer,     \* main's local transformer
    tabledata,       \* main's local tabledata
    extract_calls,   \* the extract invocations transform made
    fields,          \* main's local fields
    stdout,          \* the rows written to sys.stdout
    io_log,          \* the I/O done so far, in order
    err,             \* the exception that ended the run
    u_spec,          \* the argument of a direct from_spec call
    u_node,          \* the argument of a direct extract call
    u_fx,            \* the result of the from_spec call
    u_val            \* the result of the extract call

vars == <<entry, pc, infile, data_fields, index_field, root_path, input_document,
          transformer, tabledata, extract_calls, fields, stdout, io_log, err,
          u_spec, u_node, u_fx, u_val>>

mainArgs == <<entry, infile, data_fields, index_field, root_path>>
mainLocals == <<input_document, transformer, tabledata, extract_calls, fields, stdout, io_log>>
unitVars == <<u_spec, u_node, u_fx, u_val>>

InitLocals ==
    /\ input_document = NoneVal
    /\ transformer = NoneVal
    /\ tabledata = NoneVal
    /\ extract_calls = 0
    /\ fields = NoneVal
    /\ stdout = <<>>
    /\ io_log = <<>>
    /\ err = NoneVal
    /\ u_fx = NoneVal
    /\ u_val = NoneVal

\* the program is entered through main
InitMain ==
    /\ entry = "main"
    /\ pc = "parse"
    /\ infile \in Files
    /\ data_fields \in SeqsUpTo(MainSpecs, MaxSpecs)
    /\ index_field \in IndexFields
    /\ root_path \in RootPaths
    /\ u_spec = <<>>
    /\ u_node = NoRoot
    /\ InitLocals

\* the library is entered through FieldExtractor.from_spec and extract
InitUnit ==
    /\ entry = "unit"
    /\ pc = "from_spec"
    /\ u_spec \in UnitSpecs
    /\ u_node \in UnitNodes
    /\ infile = [kind |-> "missing", root |-> NoRoot]
    /\ data_fields = <<>>
    /\ index_field = s_ID
    /\ root_path = NoneVal
    /\ InitLocals

Init == InitMain \/ InitUnit

\* fx = FieldExtractor.from_spec(spec)
CallFromSpec ==
    /\ pc = "from_spec"
    /\ LET r == from_spec(u_spec)
       IN IF r.ok
          THEN /\ u_fx' = Some(r.val)
               /\ pc' = "extract"
               /\ err' = err
          ELSE /\ u_fx' = u_fx
               /\ pc' = "failed"
               /\ err' = Some(r.err)
    /\ UNCHANGED <<mainArgs, mainLocals, u_spec, u_node, u_val>>

\* fx.extract(node)
CallExtract ==
    /\ pc = "extract"
    /\ LET r == extract(u_fx.val, u_node)
       IN IF r.ok
          THEN /\ u_val' = Some(r.val)
               /\ pc' = "done"
               /\ err' = err
          ELSE /\ u_val' = u_val
               /\ pc' = "failed"
               /\ err' = Some(r.err)
    /\ UNCHANGED <<mainArgs, mainLocals, u_spec, u_node, u_fx>>

\* input_document = ET.parse(infile)
MainParse ==
    /\ pc = "parse"
    /\ io_log' = Append(io_log, "ET.parse")
    /\ IF infile.kind = "xml"
       THEN /\ input_document' = Some(infile.root)
            /\ pc' = "construct"
            /\ err' = err
       ELSE /\ input_document' = input_document
            /\ pc' = "failed"
            /\ err' = Some(IF infile.kind = "missing" THEN FileNotFoundError ELSE ParseError)
    /\ UNCHANGED <<mainArgs, transformer, tabledata, extract_calls, fields, stdout, unitVars>>

\* transformer = XMLDocTransformer(index_field, data_fields, root_path)
MainConstruct ==
    /\ pc = "construct"
    /\ LET r == XMLDocTransformer(index_field, data_fields, root_path)
       IN IF r.ok
          THEN /\ transformer' = Some(r.val)
               /\ pc' = "transform"
               /\ err' = err
          ELSE /\ transformer' = transformer
               /\ pc' = "failed"
               /\ err' = Some(r.err)
    /\ UNCHANGED <<mainArgs, input_document, tabledata, extract_calls, fields, stdout, io_log, unitVars>>

\* tabledata = transformer.transform(input_document)
MainTransform ==
    /\ pc = "transform"
    /\ LET r == transform(transformer.val, input_document.val)
       IN /\ extract_calls' = r.calls
          /\ IF r.ok
             THEN /\ tabledata' = Some(r.val)
                  /\ pc' = "field_names"
                  /\ err' = err
             ELSE /\ tabledata' = tabledata
                  /\ pc' = "failed"
                  /\ err' = Some(r.err)
    /\ UNCHANGED <<mainArgs, input_document, transformer, fields, stdout, io_log, unitVars>>

\* fields = transformer.field_names()
MainFieldNames ==
    /\ pc = "field_names"
    /\ fields' = Some(field_names(transformer.val))
    /\ pc' = "writeheader"
    /\ UNCHANGED <<mainArgs, input_document, transformer, tabledata, extract_calls, stdout, io_log, err, unitVars>>

\* outcsv = csv.DictWriter(sys.stdout, fields); outcsv.writeheader()
MainWriteHeader ==
    /\ pc = "writeheader"
    /\ stdout' = Append(stdout, fields.val)
    /\ io_log' = Append(io_log, "writeheader")
    /\ pc' = "writerows"
    /\ UNCHANGED <<mainArgs, input_document, transformer, tabledata, extract_calls, fields, err, unitVars>>

\* outcsv.writerows(tabledata)
MainWriteRows ==
    /\ pc = "writerows"
    /\ stdout' = stdout \o [i \in 1..Len(tabledata.val) |-> DictToList(fields.val, tabledata.val[i])]
    /\ io_log' = Append(io_log, "writerows")
    /\ pc' = "done"
    /\ UNCHANGED <<mainArgs, input_document, transformer, tabledata, extract_calls, fields, err, unitVars>>

Next ==
    \/ CallFromSpec
    \/ CallExtract
    \/ MainParse
    \/ MainConstruct
    \/ MainTransform
    \/ MainFieldNames
    \/ MainWriteHeader
    \/ MainWriteRows

Spec == Init /\ [][Next]_vars

\* ------------------------------------------------------------------ claims
\* what a claim says of a field spec string, read off its characters
ColonAt(spec) == {i \in 1..Len(spec) : spec[i] = ":"}
NumParts(spec) == Cardinality(ColonAt(spec)) + 1
NthColon(spec, n) ==
    IF Cardinality(ColonAt(spec)) >= n
    THEN CHOOSE i \in ColonAt(spec) : Cardinality({j \in ColonAt(spec) : j < i}) = n - 1
    ELSE Len(spec) + 1
FirstPart(spec) == SubSeq(spec, 1, NthColon(spec, 1) - 1)
SecondPart(spec) == SubSeq(spec, NthColon(spec, 1) + 1, NthColon(spec, 2) - 1)
BadSource(spec) == FirstPart(spec) \notin {s_attrib, s_text}
Malformed(spec) == BadSource(spec) \/ NumParts(spec) < 2
HasMalformed == \E i \in 1..Len(data_fields) : Malformed(data_fields[i])

\* the children transform iterates, once the transformer and document exist
RootChildren == ResolveRoot(transformer.val, input_document.val).val.children

\* transform has returned its records
Transformed == entry = "main" /\ ~tabledata.isNone

\* C1: a successful transform returns one record per direct child of the
\* root, in document order, and the i-th record holds i under the index
\* field name.
C1_IndexAssignment ==
    Transformed =>
        /\ Len(tabledata.val) = Len(RootChildren)
        /\ \A i \in 1..Len(tabledata.val) :
              tabledata.val[i][index_field] = IntVal(i - 1)

\* C2: main writes nothing (header included) before transform has produced a
\* record for every child, and after a failed extraction transform returns
\* no records and nothing is written.
C2_AllOrNothing ==
    /\ stdout # <<>> =>
          /\ Transformed
          /\ err.isNone
          /\ Len(tabledata.val) = Len(RootChildren)
    /\ (entry = "main" /\ pc = "failed") => (tabledata.isNone /\ stdout = <<>>)

\* C2 witness: extraction failed on the middle child of three, after the
\* first child was extracted, and nothing was written.
C2_Witness ==
    /\ entry = "main" /\ pc = "failed"
    /\ ~transformer.isNone
    /\ Len(transformer.val.fields) = 1
    /\ err = Some(KeyError(s_v))
    /\ extract_calls = 2
    /\ Len(RootChildren) = 3
    /\ stdout = <<>>

\* C3 as stated: a run of main with a malformed field spec fails with the
\* configuration error before the input file is opened or parsed.
C3_Original ==
    (entry = "main" /\ HasMalformed /\ pc = "failed") =>
        /\ err.val.type \in {"ValueError", "IndexError"}
        /\ io_log = <<>>

\* C3 amended: a malformed field spec is detected when the transformer is
\* constructed, after the input file has been parsed and before transform
\* runs or anything is written; when the file cannot be parsed the run fails
\* in ET.parse and the specs are never examined.
C3_DetectedAtConstruction ==
    (entry = "main" /\ HasMalformed) =>
        /\ pc \in {"parse", "construct", "failed"}
        /\ transformer.isNone /\ tabledata.isNone
        /\ extract_calls = 0 /\ stdout = <<>>
        /\ pc = "failed" =>
              /\ io_log = <<"ET.parse">>
              /\ IF infile.kind = "xml"
                 THEN ~input_document.isNone /\ err.val.type \in {"ValueError", "IndexError"}
                 ELSE input_document.isNone /\ err.val.type \in {"FileNotFoundError", "ParseError"}

\* C3 witness: the input was parsed and the construction then failed on an
\* unknown source.
C3_Witness ==
    /\ entry = "main" /\ pc = "failed"
    /\ HasMalformed
    /\ ~input_document.isNone
    /\ err = Some(ValueError_InvalidSource(s_bogus))

\* C4 as stated: from_spec of a spec whose first part is neither 'attrib' nor
\* 'text' fails with the error naming that source, whatever follows, and a
\* transformer given such a spec is not constructed and fails with that error.
C4_Original ==
    /\ (entry = "unit" /\ pc # "from_spec" /\ BadSource(u_spec)) =>
          err = Some(ValueError_InvalidSource(FirstPart(u_spec)))
    /\ (entry = "main" /\ pc \notin {"parse", "construct"} /\ ~input_document.isNone
          /\ \E i \in 1..Len(data_fields) : BadSource(data_fields[i])) =>
          /\ transformer.isNone
          /\ \E i \in 1..Len(data_fields) :
                /\ BadSource(data_fields[i])
                /\ err = Some(ValueError_InvalidSource(FirstPart(data_fields[i])))

\* C5 as stated: from_spec of a spec with fewer than two parts fails with the
\* error kind it raises for an unrecognized source.
C5_Original ==
    (entry = "unit" /\ pc # "from_spec" /\ NumParts(u_spec) < 2) =>
        /\ ~err.isNone
        /\ err.val.type = ValueError_InvalidSource(FirstPart(u_spec)).type

\* extract was called on a node that lacks the attribute an 'attrib' spec names
MissingAttribCase ==
    /\ entry = "unit" /\ pc \in {"done", "failed"}
    /\ ~u_fx.isNone
    /\ FirstPart(u_spec) = s_attrib
    /\ SecondPart(u_spec) \notin DOMAIN u_node.attrib

\* the fields of main are all 'attrib' specs without a format part
AllPlainAttrib ==
    \A i \in 1..Len(data_fields) :
        FirstPart(data_fields[i]) = s_attrib /\ NumParts(data_fields[i]) = 2

\* C6 as stated: for an 'attrib' spec with or without a format part, extract
\* on a node lacking the attribute raises nothing and returns 'None'.
C6_Original ==
    MissingAttribCase => (pc = "done" /\ u_val = Some(s_None))

\* C6 amended: without a format part, or with an empty one, extract on a node
\* lacking the attribute returns 'None' and a transform over such children
\* yields one record per child; with a non-empty format part it raises
\* TypeError.
C6_MissingAttribute ==
    /\ MissingAttribCase =>
          IF NumParts(u_spec) = 2 \/ u_fx.val.field_format = Some(<<>>)
          THEN pc = "done" /\ u_val = Some(s_None)
          ELSE pc = "failed" /\ err.val.type = "TypeError" /\ u_val.isNone
    /\ (entry = "main" /\ AllPlainAttrib /\ ~transformer.isNone
          /\ pc # "transform" /\ ~ResolveRoot(transformer.val, input_document.val).isNone) =>
          /\ Transformed
          /\ Len(tabledata.val) = Len(RootChildren)
          /\ \A i \in 1..Len(RootChildren) : \A j \in 1..Len(data_fields) :
                SecondPart(data_fields[j]) \notin DOMAIN RootChildren[i].attrib =>
                    tabledata.val[i][SecondPart(data_fields[j])] = StrVal(s_None)

\* C6 witness: an 'attrib' spec without format, extracted from a node lacking
\* the attribute, returned 'None'.
C6_Witness ==
    /\ MissingAttribCase
    /\ NumParts(u_spec) = 2
    /\ pc = "done"
    /\ u_val = Some(s_None)

\* extract was called with a 'text' spec
TextCase ==
    /\ entry = "unit" /\ pc \in {"done", "failed"}
    /\ ~u_fx.isNone
    /\ FirstPart(u_spec) = s_text

\* the tag a name asks for: the name itself, or what follows './/'
TagOf(name) ==
    IF Len(name) >= 3 /\ name[1] = "." /\ name[2] = "/" /\ name[3] = "/"
    THEN SubSeq(name, 4, Len(name)) ELSE name

WithTag(elements, tag) == SelectSeq(elements, LAMBDA e : e.tag = tag)

\* the text of an element as str() gives it
TextOrNone(element) == IF element.text.isNone THEN s_None ELSE element.text.val

\* what the format directives used here make of a str
Formatted(fmt, text) ==
    CASE fmt = <<>> -> text
      [] fmt = f_trunc1 -> IF text = <<>> THEN <<>> ELSE <<text[1]>>
      [] fmt = f_right3 -> IF Len(text) >= 3 THEN text ELSE Spaces(3 - Len(text)) \o text

\* C7 as stated: with a 'text' spec named Y, when some descendant of the node
\* at any depth matches Y, extract returns the formatted text of the first
\* one in document order (also when the text is absent or empty), and
\* otherwise fails with the field-not-found error carrying Y.
C7_Original ==
    TextCase =>
        LET Y == SecondPart(u_spec)
            matches == WithTag(Descendants(u_node), TagOf(Y))
        IN IF matches # <<>>
           THEN /\ pc = "done"
                /\ Formatter(u_fx.val, matches[1].text).ok
                /\ u_val = Some(Formatter(u_fx.val, matches[1].text).val)
           ELSE pc = "failed" /\ err = Some(KeyError(Y))

\* C7 amended: the element is the one find(Y) gives: the first direct child
\* with tag Y for a bare Y, the first descendant in document order for
\* './/tag'.  When it exists extract returns its text as a string without a
\* format ('None' when the text is absent), the text formatted when a format
\* valid for a str is given and the text is present, 'None' when the format
\* is empty and the text absent; it raises TypeError for absent text under a
\* non-empty format and ValueError for a format not valid for a str.  When
\* no such element exists it raises KeyError carrying Y.
C7_TextExtraction ==
    TextCase =>
        LET Y == SecondPart(u_spec)
            bare == TagOf(Y) = Y
            matches == WithTag(IF bare THEN u_node.children ELSE Descendants(u_node), TagOf(Y))
            fmt == u_fx.val.field_format
        IN IF matches = <<>>
           THEN pc = "failed" /\ err = Some(KeyError(Y)) /\ u_val.isNone
           ELSE LET m == matches[1]
                IN IF fmt.isNone
                   THEN pc = "done" /\ u_val = Some(TextOrNone(m))
                   ELSE IF m.text.isNone
                   THEN IF fmt.val = <<>>
                        THEN pc = "done" /\ u_val = Some(s_None)
                        ELSE pc = "failed" /\ err.val.type = "TypeError"
                   ELSE IF fmt.val \in {<<>>, f_trunc1, f_right3}
                   THEN pc = "done" /\ u_val = Some(Formatted(fmt.val, m.text.val))
                   ELSE pc = "failed" /\ err.val.type = "ValueError"

\* C7 witness: the first matching child has no text and extract returned.
C7_Witness ==
    /\ TextCase
    /\ u_node = item3
    /\ SecondPart(u_spec) = s_v
    /\ pc = "done"
    /\ u_val = Some(s_None)

\* the query of a root path matches no node below the top-level element
RootUnmatched ==
    /\ entry = "main"
    /\ ~root_path.isNone
    /\ ~transformer.isNone
    /\ WithTag(Descendants(input_document.val), TagOf(root_path.val)) = <<>>

\* C8: when the root path matches no node, transform fails with the error of
\* iterating over no node, before any extractor is invoked and with no
\* record produced.
C8_RootNotFound ==
    (RootUnmatched /\ pc # "transform") =>
        /\ pc = "failed"
        /\ err = Some(TypeError_NotIterable)
        /\ extract_calls = 0
        /\ tabledata.isNone
        /\ stdout = <<>>

\* C8 witness: a document with children to extract from, fields to extract,
\* and a root path nothing matches.
C8_Witness ==
    /\ RootUnmatched /\ pc = "failed"
    /\ root_path = Some(s_nope)
    /\ Len(transformer.val.fields) = 2
    /\ input_document.val.tag = s_items
    /\ Len(input_document.val.children) = 2
    /\ err = Some(TypeError_NotIterable)

\* C9: field_names() is the index field name followed by the name of each
\* field in input order, once per field, and it is the header main writes.
C9_FieldNames ==
    (entry = "main" /\ ~fields.isNone) =>
        /\ Len(fields.val) = 1 + Len(data_fields)
        /\ fields.val[1] = index_field
        /\ \A i \in 1..Len(data_fields) : fields.val[i + 1] = SecondPart(data_fields[i])
        /\ stdout # <<>> => stdout[1] = fields.val

\* C9 witness: the header of a run with two different fields was written.
C9_Witness ==
    /\ entry = "main" /\ pc = "done"
    /\ Len(data_fields) = 2
    /\ data_fields[1] # data_fields[2]
    /\ stdout[1] = <<index_field, SecondPart(data_fields[1]), SecondPart(data_fields[2])>>

\* C10: the stored root path of a non-empty path p is p when p starts with
\* './/' and './/' + p otherwise; an absent path stays absent and transform
\* then iterates the top-level element; a transformer built from the stored
\* path stores the same path.
C10_RootPathNormalization ==
    (entry = "main" /\ ~transformer.isNone) =>
        LET stored == transformer.val.root_path
        IN /\ root_path.isNone =>
                 /\ stored.isNone
                 /\ pc \in {"transform", "field_names", "writeheader", "writerows", "done"}
                       \/ err # Some(TypeError_NotIterable)
                 /\ Transformed => Len(tabledata.val) = Len(input_document.val.children)
           /\ (~root_path.isNone /\ root_path.val # <<>>) =>
                 stored = Some(IF TagOf(root_path.val) # root_path.val
                               THEN root_path.val
                               ELSE <<".", "/", "/">> \o root_path.val)
           /\ XMLDocTransformer(index_field, data_fields, stored).val.root_path = stored

\* C10 witness: a bare root path was stored with the any-depth prefix, and
\* transform found the root through it.
C10_Witness ==
    /\ Transformed
    /\ root_path = Some(s_items)
    /\ transformer.val.root_path = Some(<<".", "/", "/", "i", "t", "e", "m", "s">>)
    /\ Len(tabledata.val) = 2

====
